---- MODULE Spec2Model ----
(***************************************************************************)
(* HTML-to-Markdown conversion: parseMarkdown, the GoMarkdownConverter     *)
(* singleton, the Turndown fallback and the Markdown post-processing.      *)
(*                                                                         *)
(* A call of parseMarkdown is a sequence of synchronous segments of the    *)
(* JavaScript event loop; every `await` ends a segment.  Each action below *)
(* is one such segment (or the completion of the external operation the    *)
(* call is suspended on), so several calls interleave exactly at the       *)
(* awaits of the source.                                                   *)
(*                                                                         *)
(* What the collaborators may do: stat resolves or rejects; the            *)
(* constructor (koffi.load, lib.func) returns or throws; the native call   *)
(* answers with a result or an error; require / new TurndownService /      *)
(* addRule / use return or throw; turndown returns or throws, depending on *)
(* the document.  logger.* and Sentry.captureException return.             *)
(*                                                                         *)
(* Text is a sequence of one-character strings.                            *)
(***************************************************************************)
EXTENDS Integers, Sequences, FiniteSets, TLC

\* number of parseMarkdown calls that may be in flight together
NumCalls == 2

Calls == 1..NumCalls

VARIABLES
  envSetting,       \* process.env.USE_GO_MARKDOWN_PARSER
  artifactPresent,  \* html-to-markdown.so exists at goExecutablePath
  instance,         \* GoMarkdownConverter.instance: 0 = unset, n = n-th object
  handlesCreated,   \* number of GoMarkdownConverter objects constructed
  page,             \* the document the callers of this run convert
  call,             \* per call: the frame of parseMarkdown (see NewCall)
  probe             \* the last application of a text function on its own

vars == << envSetting, artifactPresent, instance, handlesCreated, page,
           call, probe >>

\* history: some getInstance has already thrown
everFailed ==
  \E c \in Calls : call[c].statSaw = "absent" \/ call[c].loadSaw = "threw"

(***************************************************************************)
(* Text helpers                                                            *)
(***************************************************************************)
NL == "\n"

\* case folding of the regular expression's i flag, on the letters the
\* pattern contains
LowerIdentity(ch) == ch
Lower(ch) ==
  CASE ch = "S" -> "s" [] ch = "K" -> "k" [] ch = "I" -> "i"
    [] ch = "P" -> "p" [] ch = "T" -> "t" [] ch = "O" -> "o"
    [] ch = "C" -> "c" [] ch = "N" -> "n" [] ch = "E" -> "e"
    [] OTHER -> ch

(***************************************************************************)
(* processMultiLineLinks: one left-to-right scan with linkOpenCount        *)
(***************************************************************************)
\* linkOpenCount after the first i characters have been scanned
RECURSIVE linkOpenCountNoFloor(_, _)
linkOpenCountNoFloor(md, i) ==
  IF i = 0 THEN 0
  ELSE IF md[i] = "[" THEN linkOpenCountNoFloor(md, i - 1) + 1
  ELSE IF md[i] = "]" THEN linkOpenCountNoFloor(md, i - 1) - 1
  ELSE linkOpenCountNoFloor(md, i - 1)
RECURSIVE linkOpenCount(_, _)
linkOpenCount(md, i) ==
  IF i = 0 THEN 0
  ELSE IF md[i] = "[" THEN linkOpenCount(md, i - 1) + 1
  ELSE IF md[i] = "]"
       THEN CHOOSE m \in { linkOpenCount(md, i - 1) - 1, 0 } :
              \A k \in { linkOpenCount(md, i - 1) - 1, 0 } : m >= k
  ELSE linkOpenCount(md, i - 1)

\* what the scan appends for the i-th character
Emit(md, i) ==
  LET insideLinkContent == linkOpenCount(md, i) > 0
  IN  IF insideLinkContent /\ md[i] = NL THEN << "\\", NL >> ELSE << md[i] >>

RECURSIVE ScanLinks(_, _)
ScanLinks(md, i) ==
  IF i > Len(md) THEN << >> ELSE Emit(md, i) \o ScanLinks(md, i + 1)

processMultiLineLinks(md) == ScanLinks(md, 1)

(***************************************************************************)
(* removeSkipToContentLinks: replace(/\[Skip to Content\]\(#[^\)]*\)/gi,"") *)
(***************************************************************************)
\* the literal head of the pattern, case-folded: [skip to content](#
SkipHead ==
  << "[", "s", "k", "i", "p", " ", "t", "o", " ",
     "c", "o", "n", "t", "e", "n", "t", "]", "(", "#" >>

HeadMatchesAt(md, i) ==
  /\ i + Len(SkipHead) - 1 <= Len(md)
  /\ \A k \in 1..Len(SkipHead) : Lower(md[i + k - 1]) = SkipHead[k]

\* position of the first ")" at or after j, 0 when there is none
NextClose(md, j) ==
  LET closes == { k \in j..Len(md) : md[k] = ")" }
  IN  IF closes = { } THEN 0
      ELSE CHOOSE k \in closes : \A m \in closes : k <= m

\* index of the last character of the match that starts at i, 0 if none
SkipMatchEnd(md, i) ==
  IF HeadMatchesAt(md, i) THEN NextClose(md, i + Len(SkipHead)) ELSE 0

\* where the leftmost match at or after i starts, 0 when there is none
NextMatch(md, i) ==
  LET starts == { k \in i..Len(md) : SkipMatchEnd(md, k) > 0 }
  IN  IF starts = { } THEN 0
      ELSE CHOOSE k \in starts : \A m \in starts : k <= m

\* the g flag: the text from i on without its matches, leftmost first,
\* the search resuming after each match
RECURSIVE DropSkipLinks(_, _)
DropSkipLinks(md, i) ==
  LET s == NextMatch(md, i)
  IN  IF s = 0 THEN SubSeq(md, i, Len(md))
      ELSE SubSeq(md, i, s - 1) \o DropSkipLinks(md, SkipMatchEnd(md, s) + 1)

removeSkipToContentLinks(md) == DropSkipLinks(md, 1)

\* the two post-processing lines of either backend path (65-66, 162-163)
PostProcessReversed(md) ==
  processMultiLineLinks(removeSkipToContentLinks(md))
PostProcess(md) == removeSkipToContentLinks(processMultiLineLinks(md))

(***************************************************************************)
(* Inputs.  An HTML document is a sequence of elements:                    *)
(*   "P"  <p>a</p>                                                         *)
(*   "A"  <a href="u">a<newline>b</a>      a link whose text spans lines   *)
(*   "K"  <a href="#[">Skip to Content</a>                                 *)
(*   "X"  an element on which a rendering rule throws                      *)
(***************************************************************************)
Null      == [kind |-> "null",      nodes |-> << >>]
Undefined == [kind |-> "undefined", nodes |-> << >>]
Str(nodes) == [kind |-> "string", nodes |-> nodes]

Documents == { << "A", "K" >>, << "P", "X" >> }

\* what a caller may pass: nothing, the empty string, or the page
HtmlInputs == { Null, Undefined, Str(<< >>), Str(page) }

\* `!html` is false exactly for a non-empty string
TruthyNonNull(h) == h.kind = "string"
Truthy(h) == h.kind = "string" /\ h.nodes # << >>

EnvValues == { "<unset>", "true", "TRUE" }

\* process.env.USE_GO_MARKDOWN_PARSER == "true"
NativeEnabledLoose(setting) == setting \in { "true", "TRUE" }
NativeEnabled(setting) == setting = "true"

(***************************************************************************)
(* The two renderers, on the elements above.  The fallback's inlineLink    *)
(* rule appends a newline after the closing parenthesis; the native        *)
(* converter does not.  Blocks are separated by a blank line.              *)
(***************************************************************************)
LinkText == << "[", "a", NL, "b", "]", "(", "u", ")" >>
SkipText == << "[", "S", "k", "i", "p", " ", "t", "o", " ",
               "C", "o", "n", "t", "e", "n", "t", "]", "(", "#", "[", ")" >>

TurndownNode(n) ==
  CASE n = "P" -> << "a" >>
    [] n = "A" -> LinkText \o << NL >>
    [] n = "K" -> SkipText \o << NL >>
    [] OTHER   -> << >>

GoNode(n) ==
  CASE n = "P" -> << "a" >>
    [] n = "A" -> LinkText
    [] n = "K" -> SkipText
    [] OTHER   -> << "x" >>

RECURSIVE JoinBlocks(_)
JoinBlocks(blocks) ==
  IF blocks = << >> THEN << >>
  ELSE IF Len(blocks) = 1 THEN blocks[1]
  ELSE blocks[1] \o << NL, NL >> \o JoinBlocks(Tail(blocks))

\* turndownService.turndown(html) when it returns
Turndown(nodes) ==
  JoinBlocks([i \in 1..Len(nodes) |-> TurndownNode(nodes[i])])
\* ... and when it throws
TreeWalkThrows(nodes) == \E i \in 1..Len(nodes) : nodes[i] = "X"

\* ConvertHTMLToMarkdown when converter.ConvertString succeeds
GoConvert(nodes) ==
  JoinBlocks([i \in 1..Len(nodes) |-> GoNode(nodes[i])])

\* every raw Markdown a backend can hand to the post-processing, and the
\* post-processing of each
RawOutputs ==
  { << >> } \cup { Turndown(d) : d \in Documents }
            \cup { GoConvert(d) : d \in Documents }
Processed == [md \in RawOutputs |-> PostProcess(md)]

(***************************************************************************)
(* The frame of one parseMarkdown call                                     *)
(***************************************************************************)
NoError == [isError |-> FALSE, message |-> ""]
NotFound == [isError |-> TRUE, message |-> "Go shared library not found"]

NewCall ==
  [ pc              |-> "idle",
    html            |-> Null,
    error           |-> NoError,   \* the value caught at line 70
    converter       |-> 0,         \* the object getInstance returned
    markdownContent |-> << >>,     \* raw backend output
    result          |-> << >>,     \* the returned string
    warn            |-> 0,         \* logger.warn calls
    nativeErrorLog  |-> 0,         \* logger.error calls of line 76
    renderErrorLog  |-> 0,         \* logger.error calls of line 167
    sentry          |-> 0,         \* Sentry.captureException calls
    stat            |-> 0,         \* stat(goExecutablePath) calls
    load            |-> 0,         \* new GoMarkdownConverter() calls
    native          |-> 0,         \* convert.async calls
    fallback        |-> 0,         \* times the Turndown section was entered
    statSaw         |-> "none",    \* history: what stat answered
    loadSaw         |-> "none",    \* history: how the constructor ended
    nativeSaw       |-> "none",    \* history: how the native call ended
    afterFailure    |-> FALSE ]    \* history: started after a failure

Terminal == { "returned", "rejected" }

\* no text function has been applied on its own
NoProbe == [kind |-> "none"]

\* the frame's locals are gone when the call ends
Leave(r, how) ==
  [r EXCEPT !.pc = how, !.error = NoError, !.converter = 0,
            !.markdownContent = << >>, !.afterFailure = FALSE]

\* `return s`
Return(r, s) == [Leave(r, "returned") EXCEPT !.result = s]

(***************************************************************************)
(* Segments of parseMarkdown, as functions of the call's frame             *)
(***************************************************************************)
\* getInstance up to its await (lines 28-31), or its return (line 37)
GetInstanceCached(r) ==
  IF instance = 0 /\ everFailed
  THEN [r EXCEPT !.pc = "caught", !.error = NotFound]
  ELSE IF instance = 0
       THEN [r EXCEPT !.pc = "statWait", !.stat = @ + 1]
       ELSE [r EXCEPT !.pc = "instReady", !.converter = instance]
GetInstance(r) ==
  IF instance = 0
  THEN [r EXCEPT !.pc = "statWait", !.stat = @ + 1]
  ELSE [r EXCEPT !.pc = "instReady", !.converter = instance]

\* the catch block of the fallback (lines 166-169)
FallbackFailureReported(r) ==
  Return([r EXCEPT !.renderErrorLog = @ + 1, !.sentry = @ + 1], << >>)
FallbackFailure(r) == Return([r EXCEPT !.renderErrorLog = @ + 1], << >>)

\* lines 88-161: build the TurndownService, add the rules, call turndown;
\* constructOk: require / new TurndownService / addRule / use all returned
Fallback(r, constructOk) ==
  LET r1 == [r EXCEPT !.fallback = @ + 1]
  IN  IF ~constructOk THEN Leave(r1, "rejected")
      ELSE IF TreeWalkThrows(r1.html.nodes) THEN FallbackFailure(r1)
      ELSE [r1 EXCEPT !.pc = "fbAwait", !.error = NoError,
                      !.markdownContent = Turndown(r1.html.nodes)]

\* the test of the catch block (lines 71-74), negated
IsMissingLibraryNever(e) == FALSE
IsMissingLibrary(e) ==
  e.isError /\ e.message = "Go shared library not found"

\* the catch block of the native attempt (lines 70-85)
CatchLog(r) ==
  IF ~IsMissingLibrary(r.error)
  THEN [r EXCEPT !.sentry = @ + 1, !.nativeErrorLog = @ + 1]
  ELSE [r EXCEPT !.warn = @ + 1]

\* lines 56-62 (and on to the fallback when the native parser is off)
Enter(r, constructOk) ==
  IF ~Truthy(r.html) THEN Return(r, << >>)
  ELSE IF NativeEnabled(envSetting) THEN GetInstance(r)
  ELSE Fallback(r, constructOk)

\* lines 65-68
NativeDoneFallsThrough(r) == Fallback(r, TRUE)
NativeDoneRetries(r) ==
  IF r.markdownContent = << >> THEN [r EXCEPT !.pc = "nativeWait"]
  ELSE Return(r, Processed[r.markdownContent])
NativeDone(r) == Return(r, Processed[r.markdownContent])

\* lines 162-165
FallbackDone(r) == Return(r, Processed[r.markdownContent])

(***************************************************************************)
(* Initial state and actions                                               *)
(***************************************************************************)
Init ==
  /\ envSetting \in EnvValues
  /\ artifactPresent \in BOOLEAN
  /\ instance = 0
  /\ handlesCreated = 0
  /\ page \in Documents
  /\ call = [c \in Calls |-> NewCall]
  /\ probe = NoProbe

Upd(c, r) == call' = [call EXCEPT ![c] = r]

\* a caller invokes parseMarkdown(h); runs to the first await or return
Call(c) ==
  /\ call[c].pc = "idle"
  /\ \E h \in HtmlInputs, constructOk \in BOOLEAN :
       Upd(c, Enter([call[c] EXCEPT !.html = h,
                                    !.afterFailure = everFailed],
                    constructOk))
  /\ UNCHANGED << envSetting, artifactPresent, instance, handlesCreated,
                  page, probe >>

\* stat rejects: getInstance throws Error("Go shared library not found")
StatRejects(c) ==
  /\ call[c].pc = "statWait"
  /\ ~artifactPresent
  /\ Upd(c, [call[c] EXCEPT !.pc = "caught", !.error = NotFound,
                            !.statSaw = "absent"])
  /\ UNCHANGED << envSetting, artifactPresent, instance, handlesCreated,
                  page, probe >>

\* stat resolves and koffi.load succeeds: lines 35-37
LoadSucceeds(c) ==
  /\ call[c].pc = "statWait"
  /\ artifactPresent
  /\ handlesCreated' = handlesCreated + 1
  /\ instance' = handlesCreated + 1
  /\ Upd(c, [call[c] EXCEPT !.pc = "instReady", !.load = @ + 1,
                            !.converter = handlesCreated + 1,
                            !.statSaw = "present", !.loadSaw = "ok"])
  /\ UNCHANGED << envSetting, artifactPresent, page, probe >>

\* stat resolves and the constructor throws (koffi.load or lib.func)
LoadThrows(c) ==
  /\ call[c].pc = "statWait"
  /\ artifactPresent
  /\ Upd(c, [call[c] EXCEPT !.pc = "caught", !.load = @ + 1,
                            !.error = [isError |-> TRUE,
                                       message |-> "load failed"],
                            !.statSaw = "present", !.loadSaw = "threw"])
  /\ UNCHANGED << envSetting, artifactPresent, instance, handlesCreated,
                  page, probe >>

\* line 63: converter.convertHTMLToMarkdown(html) issues convert.async
InvokeNative(c) ==
  /\ call[c].pc = "instReady"
  /\ Upd(c, [call[c] EXCEPT !.pc = "nativeWait", !.native = @ + 1])
  /\ UNCHANGED << envSetting, artifactPresent, instance, handlesCreated,
                  page, probe >>

\* the callback gets (null, res): ConvertHTMLToMarkdown returned; when
\* converter.ConvertString failed, its error was dropped and res is ""
NativeResolves(c) ==
  /\ call[c].pc = "nativeWait"
  /\ \E goOk \in BOOLEAN :
       Upd(c, [call[c] EXCEPT
                 !.pc = "nativeResolved",
                 !.nativeSaw = IF goOk THEN "ok" ELSE "goErr",
                 !.markdownContent =
                    IF goOk THEN GoConvert(call[c].html.nodes) ELSE << >>])
  /\ UNCHANGED << envSetting, artifactPresent, instance, handlesCreated,
                  page, probe >>

\* the callback gets an err: the promise of line 41 rejects
NativeRejects(c) ==
  /\ call[c].pc = "nativeWait"
  /\ \E isErr \in BOOLEAN :
       Upd(c, [call[c] EXCEPT
                 !.pc = "caught", !.nativeSaw = "err",
                 !.error = [isError |-> isErr,
                            message |-> "native call failed"]])
  /\ UNCHANGED << envSetting, artifactPresent, instance, handlesCreated,
                  page, probe >>

\* lines 65-68 after the native call resolved
NativeFinish(c) ==
  /\ call[c].pc = "nativeResolved"
  /\ Upd(c, NativeDone(call[c]))
  /\ UNCHANGED << envSetting, artifactPresent, instance, handlesCreated,
                  page, probe >>

\* lines 70-161: classify and log, then the fallback up to its await
Catch(c) ==
  /\ call[c].pc = "caught"
  /\ \E constructOk \in BOOLEAN :
       Upd(c, Fallback(CatchLog(call[c]), constructOk))
  /\ UNCHANGED << envSetting, artifactPresent, instance, handlesCreated,
                  page, probe >>

\* lines 162-165 after `await turndownService.turndown(html)`
FallbackFinish(c) ==
  /\ call[c].pc = "fbAwait"
  /\ Upd(c, FallbackDone(call[c]))
  /\ UNCHANGED << envSetting, artifactPresent, instance, handlesCreated,
                  page, probe >>

\* the shared library is installed or removed while the process runs
InstallArtifact ==
  /\ ~artifactPresent
  /\ artifactPresent' = TRUE
  /\ UNCHANGED << envSetting, instance, handlesCreated, page, call,
                  probe >>

RemoveArtifact ==
  /\ artifactPresent
  /\ artifactPresent' = FALSE
  /\ UNCHANGED << envSetting, instance, handlesCreated, page, call,
                  probe >>

\* the continuation of a suspended call
Step(c) ==
  \/ StatRejects(c) \/ LoadSucceeds(c) \/ LoadThrows(c)
  \/ InvokeNative(c) \/ NativeResolves(c) \/ NativeRejects(c)
  \/ NativeFinish(c) \/ Catch(c) \/ FallbackFinish(c)

Next ==
  \/ \E c \in Calls : Call(c)
  \/ \E c \in Calls : StatRejects(c)
  \/ \E c \in Calls : LoadSucceeds(c)
  \/ \E c \in Calls : LoadThrows(c)
  \/ \E c \in Calls : InvokeNative(c)
  \/ \E c \in Calls : NativeResolves(c)
  \/ \E c \in Calls : NativeRejects(c)
  \/ \E c \in Calls : NativeFinish(c)
  \/ \E c \in Calls : Catch(c)
  \/ \E c \in Calls : FallbackFinish(c)
  \/ InstallArtifact
  \/ RemoveArtifact

Spec == Init /\ [][Next]_vars

\* every suspended call is eventually resumed: stat and the native call
\* eventually answer, and the event loop runs every continuation
FairSpec == Spec /\ \A c \in Calls : WF_vars(Step(c))

(***************************************************************************)
(* The post-processing functions applied on their own, to every text up to *)
(* a bound.  The parseMarkdown machinery stays parked in its initial state.*)
(***************************************************************************)
\* longest text of single characters given to processMultiLineLinks
MaxLen == 4
\* most tokens in a text given to removeSkipToContentLinks
MaxTokens == 4

mainVars == << envSetting, artifactPresent, instance, handlesCreated, page,
               call >>

Parked ==
  /\ envSetting = "<unset>"
  /\ artifactPresent = FALSE
  /\ instance = 0
  /\ handlesCreated = 0
  /\ page = << "A", "K" >>
  /\ call = [c \in Calls |-> NewCall]

RECURSIVE Flatten(_)
Flatten(pieces) ==
  IF pieces = << >> THEN << >> ELSE pieces[1] \o Flatten(Tail(pieces))

SeqsUpTo(S, n) == UNION { [1..k -> S] : k \in 0..n }

\* `[a<newline>b](http://x)` and `plain<newline>text`
BracketExample ==
  << "[", "a", NL, "b", "]", "(", "h", "t", "t", "p", ":", "/", "/", "x",
     ")" >>
PlainExample ==
  << "p", "l", "a", "i", "n", NL, "t", "e", "x", "t" >>

LinkAlphabet == { "[", "]", NL, "a" }
LinkInputs ==
  SeqsUpTo(LinkAlphabet, MaxLen) \cup { BracketExample, PlainExample }

\* the pieces texts are put together from for removeSkipToContentLinks
HeadUpper ==
  << "[", "S", "k", "i", "p", " ", "t", "o", " ",
     "C", "o", "n", "t", "e", "n", "t", "]", "(" >>
HeadLower ==
  << "[", "s", "k", "i", "p", " ", "t", "o", " ",
     "c", "o", "n", "t", "e", "n", "t", "]", "(" >>
SkipTokens == { HeadUpper, HeadLower, << "#" >>, << "m" >>, << ")" >> }
SkipInputs == SeqsUpTo(SkipTokens, MaxTokens)

\* most pieces in a text given to removeSkipToContentLinks twice
MaxPieces == 3

\* a whole skip link, and a skip link cut in two after `[Skip to `
FullLink == HeadUpper \o << "#", "m", ")" >>
FullLinkLower == HeadLower \o << "#", "m", ")" >>
LinkFront == SubSeq(HeadUpper, 1, 9)
LinkBack == SubSeq(HeadUpper, 10, Len(HeadUpper)) \o << "#", "m", ")" >>
LinkPieces == { FullLink, FullLinkLower, LinkFront, LinkBack, << "x" >> }
PiecedInputs ==
  { Flatten(ps) : ps \in SeqsUpTo(LinkPieces, MaxPieces) }
    \cup { Flatten(ts) : ts \in SkipInputs }

\* a text waiting to be given to one of the two functions
LinkArgument(s) == [kind |-> "linksArg", in |-> s]
SkipArgument(ts) == [kind |-> "skipArg", toks |-> ts, in |-> Flatten(ts)]

EscapeLinks ==
  /\ probe.kind = "linksArg"
  /\ probe' = [kind |-> "links", in |-> probe.in,
               out |-> processMultiLineLinks(probe.in)]
  /\ UNCHANGED mainVars

RemoveSkipLinks ==
  /\ probe.kind = "skipArg"
  /\ probe' = [kind |-> "skip", toks |-> probe.toks, in |-> probe.in,
               out |-> removeSkipToContentLinks(probe.in)]
  /\ UNCHANGED mainVars

\* removeSkipToContentLinks, and once more on what it returned
PiecedArgument(s) == [kind |-> "piecedArg", in |-> s]

RemoveSkipLinksTwice ==
  /\ probe.kind = "piecedArg"
  /\ probe' = [kind |-> "skipTwice", in |-> probe.in,
               out |-> removeSkipToContentLinks(probe.in),
               again |-> removeSkipToContentLinks(
                           removeSkipToContentLinks(probe.in))]
  /\ UNCHANGED mainVars

TextInit ==
  /\ Parked
  /\ probe \in { LinkArgument(s) : s \in LinkInputs }
                 \cup { SkipArgument(ts) : ts \in SkipInputs }
                 \cup { PiecedArgument(s) : s \in PiecedInputs }

TextNext == EscapeLinks \/ RemoveSkipLinks \/ RemoveSkipLinksTwice

TextSpec == TextInit /\ [][TextNext]_vars

(***************************************************************************)
(* Lazy images.  An image element is its attributes: a function from the   *)
(* attribute names to the value, or to Absent when the tag does not carry  *)
(* the attribute.  Values are texts of single characters without quotes,   *)
(* ">" or "$", so that the regular expressions of processWechatLazyImages  *)
(* match an attribute exactly through the tail of `name="value"`.          *)
(***************************************************************************)
Absent == << "<null>" >>

AttrNames ==
  { "src", "data-src", "data-backsrc", "data-fail-src", "data-failsrc",
    "data-original", "data-backupSrc", "class" }

\* the names whose text ends in `src`: `src=["'][^"']+["']` matches
\* `name="value"` of each of them from its last three letters on
SrcSuffixed ==
  { "src", "data-src", "data-backsrc", "data-fail-src", "data-failsrc" }

Http == << "h", "t", "t", "p" >>
SvgPrefix ==
  << "d", "a", "t", "a", ":", "i", "m", "a", "g", "e", "/", "s", "v", "g" >>
WxLazy == << "&", "w", "x", "_", "l", "a", "z", "y", "=" >>
WxCo == << "&", "w", "x", "_", "c", "o", "=" >>
WxFmt == << "w", "x", "_", "f", "m", "t", "=" >>
QpicHost ==
  << "m", "m", "b", "i", "z", ".", "q", "p", "i", "c", ".", "c", "n" >>
RichPages == << "r", "i", "c", "h", "_", "p", "a", "g", "e", "s" >>
WxwImg == << "w", "x", "w", "-", "i", "m", "g" >>
Digit == { "0", "1", "2", "3", "4", "5", "6", "7", "8", "9" }

StartsWith(s, p) == Len(s) >= Len(p) /\ SubSeq(s, 1, Len(p)) = p

OccursAt(s, p, i) ==
  i + Len(p) - 1 <= Len(s) /\ SubSeq(s, i, i + Len(p) - 1) = p

Includes(s, p) == \E i \in 1..Len(s) : OccursAt(s, p, i)

\* strings.Replace(s, old, "", -1), from position i on
RECURSIVE RemoveAll(_, _, _)
RemoveAll(s, old, i) ==
  IF i > Len(s) THEN << >>
  ELSE IF OccursAt(s, old, i) THEN RemoveAll(s, old, i + Len(old))
  ELSE << s[i] >> \o RemoveAll(s, old, i + 1)

\* the position after the digits that start at i
RECURSIVE DigitsEnd(_, _)
DigitsEnd(s, i) ==
  IF i <= Len(s) /\ s[i] \in Digit THEN DigitsEnd(s, i + 1) ELSE i

\* where /head\d+/ matches first, 0 when it does not match
FirstFragment(s, head) ==
  LET hits == { i \in 1..Len(s) :
                  /\ OccursAt(s, head, i)
                  /\ i + Len(head) <= Len(s)
                  /\ s[i + Len(head)] \in Digit }
  IN  IF hits = { } THEN 0
      ELSE CHOOSE i \in hits : \A j \in hits : i <= j

\* s.replace(/head\d+/, ""): without the g flag, the first match only
RemoveFirst(s, head) ==
  LET i == FirstFragment(s, head)
  IN  IF i = 0 THEN s
      ELSE SubSeq(s, 1, i - 1)
             \o SubSeq(s, DigitsEnd(s, i + Len(head)), Len(s))

\* a JavaScript value that `||` and `&&` take for false
Falsy(v) == v = Absent \/ v = << >>

\* the first listed attribute whose value begins with http, else Absent
RECURSIVE FirstHttp(_, _, _)
FirstHttp(el, attrs, i) ==
  IF i > Len(attrs) THEN Absent
  ELSE IF ~Falsy(el[attrs[i]]) /\ StartsWith(el[attrs[i]], Http)
       THEN el[attrs[i]]
       ELSE FirstHttp(el, attrs, i + 1)

(***************************************************************************)
(* The native side: processWechatLazyImages on one <img> tag               *)
(***************************************************************************)
dataSrcRegexMatches(el) == ~Falsy(el["data-src"])

srcRegexMatches(el) == \E a \in SrcSuffixed : ~Falsy(el[a])

GoClean(u) ==
  RemoveAll(RemoveAll(u, WxLazy \o << "1" >>, 1), WxCo \o << "1" >>, 1)

\* first pass: the data-src value into src
CopyDataSrc(el) ==
  IF ~dataSrcRegexMatches(el) THEN el
  ELSE LET dataSrc == GoClean(el["data-src"])
       IN  IF srcRegexMatches(el)
           THEN [a \in AttrNames |->
                   IF a \in SrcSuffixed /\ ~Falsy(el[a])
                   THEN dataSrc ELSE el[a]]
           ELSE [el EXCEPT !["src"] = dataSrc]

IsSvgPlaceholder(v) ==
  v # Absent /\ StartsWith(v, SvgPrefix) /\ Len(v) > Len(SvgPrefix)

GoPossibleAttrs ==
  << "data-src", "data-backsrc", "data-original", "data-failsrc" >>

\* second pass: placeholders replaced by the first http alternate
ReplacePlaceholders(el) ==
  LET found == FirstHttp(el, GoPossibleAttrs, 1)
  IN  IF found = Absent THEN el
      ELSE [a \in AttrNames |->
              IF a \in SrcSuffixed /\ IsSvgPlaceholder(el[a])
              THEN found ELSE el[a]]

processWechatLazyImages(el) == ReplacePlaceholders(CopyDataSrc(el))

(***************************************************************************)
(* The fallback side: the wechatImages rule of the turndown service        *)
(***************************************************************************)
hasDataSrc(el) == el["data-src"] # Absent

className(el) == IF el["class"] = Absent THEN << >> ELSE el["class"]

hasWechatClass(el) ==
  Includes(className(el), RichPages) \/ Includes(className(el), WxwImg)

srcOrEmpty(el) == IF Falsy(el["src"]) THEN << >> ELSE el["src"]

hasWechatSrc(el) ==
  Includes(srcOrEmpty(el), WxFmt) \/ Includes(srcOrEmpty(el), QpicHost)

wechatFilter(el) == hasDataSrc(el) \/ hasWechatClass(el) \/ hasWechatSrc(el)

JsPossibleAttrs ==
  << "data-backsrc", "data-fail-src", "data-original", "data-backupSrc" >>

wechatReplacement(el) ==
  LET first == IF ~Falsy(el["data-src"]) THEN el["data-src"]
               ELSE srcOrEmpty(el)
      found == FirstHttp(el, JsPossibleAttrs, 1)
      src   == IF /\ Includes(first, SvgPrefix)
                  /\ Falsy(el["data-src"])
                  /\ found # Absent
               THEN found ELSE first
  IN  RemoveFirst(RemoveFirst(src, WxLazy), WxCo)

\* the URL in the rendered image: an element the filter turns down is left
\* to the renderer's own image rule, which prints the src attribute
JsResolved(el) ==
  IF wechatFilter(el) THEN wechatReplacement(el) ELSE srcOrEmpty(el)

\* the URL the native renderer is given: the src attribute, if any
GoResolved(el) ==
  LET out == processWechatLazyImages(el)
  IN  IF out["src"] = Absent THEN << >> ELSE out["src"]

(***************************************************************************)
(* The image elements the two sides are applied to                         *)
(***************************************************************************)
Placeholder == SvgPrefix \o << "+" >>
UrlX == Http \o << ":", "x" >>

SrcValues ==
  { Absent, Placeholder, Http \o << ":", "a" >>,
    Http \o << ":", "a", "?" >> \o WxFmt \o << "p" >> }

DataSrcValues ==
  { Absent,
    UrlX,
    UrlX \o WxLazy \o << "1" >> \o WxCo \o << "1" >>,
    UrlX \o WxLazy \o << "2" >>,
    UrlX \o WxLazy \o << "1", "2" >>,
    UrlX \o WxCo \o << "1" >> \o WxCo \o << "1" >>,
    UrlX \o << "&", "w", "x", "_" >> \o WxLazy \o << "1" >>
         \o << "l", "a", "z", "y", "=", "1" >> }

AlternateUrl ==
  [a \in { "data-backsrc", "data-fail-src", "data-failsrc",
           "data-original", "data-backupSrc" } |->
     Http \o << ":" >>
          \o << CASE a = "data-backsrc"  -> "b"
                  [] a = "data-fail-src" -> "f"
                  [] a = "data-failsrc"  -> "g"
                  [] a = "data-original" -> "o"
                  [] OTHER               -> "k" >>]

Elements ==
  { [a \in AttrNames |->
       CASE a = "src"      -> s
         [] a = "data-src" -> d
         [] a = "class"    -> c
         [] OTHER          -> IF a \in alts THEN AlternateUrl[a] ELSE Absent] :
      s \in SrcValues, d \in DataSrcValues, c \in { Absent, RichPages },
      alts \in SUBSET (DOMAIN AlternateUrl) }

ImageArgument(el) == [kind |-> "imgArg", el |-> el]

NormalizeImage ==
  /\ probe.kind = "imgArg"
  /\ probe' = [kind |-> "go", el |-> probe.el,
               out |-> processWechatLazyImages(probe.el)]
  /\ UNCHANGED mainVars

NormalizeAgain ==
  /\ probe.kind = "go"
  /\ probe' = [kind |-> "goTwice", el |-> probe.el, out |-> probe.out,
               again |-> processWechatLazyImages(probe.out)]
  /\ UNCHANGED mainVars

RenderImage ==
  /\ probe.kind = "imgArg"
  /\ probe' = [kind |-> "js", el |-> probe.el, url |-> JsResolved(probe.el)]
  /\ UNCHANGED mainVars

ImageInit ==
  /\ Parked
  /\ probe \in { ImageArgument(el) : el \in Elements }

ImageNext == NormalizeImage \/ NormalizeAgain \/ RenderImage

ImageSpec == ImageInit /\ [][ImageNext]_vars

(***************************************************************************)
(* Vocabulary of the properties                                            *)
(***************************************************************************)
Started(r)  == r.pc # "idle"
Ended(r)    == r.pc \in Terminal
IsAbsentOrEmpty(h) == h.kind \in { "null", "undefined" } \/ h.nodes = << >>

\* the call entered getInstance
NativeAttempted(r) == r.stat > 0 \/ r.native > 0 \/ r.pc = "instReady"

\* the single native attempt of the call failed
NativeFailed(r) ==
  r.statSaw = "absent" \/ r.loadSaw = "threw" \/ r.nativeSaw = "err"

\* what the fallback renderer followed by post-processing yields for h
FallbackAlone(h) ==
  IF TreeWalkThrows(h.nodes) THEN << >>
  ELSE removeSkipToContentLinks(processMultiLineLinks(Turndown(h.nodes)))

(***************************************************************************)
(* C1: parseMarkdown never ends by a rejected promise, whatever fails.     *)
(* The fallback renderer is built (lines 88-158) outside every try block,  *)
(* so a failure there leaves the call rejected.                            *)
(***************************************************************************)
C1_NeverRejects == \A c \in Calls : call[c].pc # "rejected"

(***************************************************************************)
(* C2: concurrent first calls load the native component at most once: at   *)
(* most one GoMarkdownConverter is ever constructed.  getInstance tests    *)
(* `instance` before its await and constructs after it, without testing    *)
(* again.                                                                  *)
(***************************************************************************)
C2_AtMostOneHandle == handlesCreated <= 1

(***************************************************************************)
(* C3: a call with absent or empty input has returned "" and has made no   *)
(* file check, load, native call, fallback run, log entry or telemetry     *)
(* report, under every configuration.                                      *)
(***************************************************************************)
C3_EmptyInput ==
  \A c \in Calls :
    LET r == call[c] IN
    (Started(r) /\ IsAbsentOrEmpty(r.html)) =>
       /\ r.pc = "returned" /\ r.result = << >>
       /\ r.stat = 0 /\ r.load = 0 /\ r.native = 0 /\ r.fallback = 0
       /\ r.warn = 0 /\ r.sentry = 0
       /\ r.nativeErrorLog = 0 /\ r.renderErrorLog = 0

C3_Witness ==
  \E c \in Calls :
    /\ envSetting = "true" /\ artifactPresent
    /\ call[c].pc = "returned" /\ call[c].html = Str(<< >>)

(***************************************************************************)
(* C4: a call whose file check found the artifact missing never loads or   *)
(* invokes the native component and sends no telemetry; once past the      *)
(* catch block it has logged exactly one warning and entered the fallback  *)
(* renderer exactly once, and what it returns is the fallback's result.    *)
(***************************************************************************)
C4_MissingArtifact ==
  \A c \in Calls :
    LET r == call[c] IN
    r.statSaw = "absent" =>
       /\ r.load = 0 /\ r.native = 0 /\ r.sentry = 0
       /\ r.nativeErrorLog = 0
       /\ r.pc # "caught" => (r.warn = 1 /\ r.fallback = 1)
       /\ r.pc = "returned" => r.result = FallbackAlone(r.html)

C4_Witness ==
  \E c \in Calls :
    /\ call[c].statSaw = "absent" /\ call[c].pc = "returned"
    /\ call[c].result # << >> /\ call[c].warn = 1

(***************************************************************************)
(* C5: a call whose native attempt failed for any reason other than the    *)
(* missing artifact (the load threw, the native call errored, or the       *)
(* conversion failed on the native side) ends with exactly one telemetry   *)
(* report and one error-level log entry for that failure, and returns what *)
(* the fallback renderer with post-processing yields for its input.        *)
(***************************************************************************)
C5_UnexpectedNativeFailure ==
  \A c \in Calls :
    LET r == call[c] IN
    (Ended(r) /\ (r.loadSaw = "threw" \/ r.nativeSaw \in { "err", "goErr" }))
      => /\ r.sentry = 1 /\ r.nativeErrorLog = 1
         /\ r.pc = "returned" => r.result = FallbackAlone(r.html)

(***************************************************************************)
(* C6: within one call every step happens at most once (file check, load,  *)
(* native invocation, fallback run, each log and telemetry call); the      *)
(* fallback runs only when the native backend is disabled or its attempt   *)
(* failed, never after the native call resolved.                           *)
(***************************************************************************)
C6_NoRetry ==
  \A c \in Calls :
    LET r == call[c] IN
    /\ r.stat <= 1 /\ r.load <= 1 /\ r.native <= 1 /\ r.fallback <= 1
    /\ r.warn <= 1 /\ r.sentry <= 1
    /\ r.nativeErrorLog <= 1 /\ r.renderErrorLog <= 1
    /\ r.fallback = 1 => (envSetting # "true" \/ NativeFailed(r))
    /\ r.nativeSaw \in { "ok", "goErr" } => r.fallback = 0

C6_Witness ==
  \E c \in Calls :
    /\ call[c].pc = "returned" /\ call[c].nativeSaw = "ok"
    /\ call[c].native = 1 /\ call[c].fallback = 0
    /\ call[c].result # << >>

(***************************************************************************)
(* C7: a call with non-empty input attempts the native backend exactly     *)
(* when the setting is the literal "true"; otherwise it has made no file   *)
(* check, load or native call, logged no warning, sent no telemetry, and   *)
(* has gone into the fallback renderer.                                    *)
(***************************************************************************)
C7_ConfigSwitch ==
  \A c \in Calls :
    LET r == call[c] IN
    (Started(r) /\ ~IsAbsentOrEmpty(r.html)) =>
       /\ NativeAttempted(r) <=> (envSetting = "true")
       /\ envSetting # "true" =>
            /\ r.stat = 0 /\ r.load = 0 /\ r.native = 0
            /\ r.warn = 0 /\ r.sentry = 0 /\ r.fallback = 1

C7_Witness ==
  \E c \in Calls :
    /\ envSetting = "TRUE" /\ artifactPresent
    /\ call[c].pc = "returned" /\ call[c].fallback = 1
    /\ call[c].result # << >>

(***************************************************************************)
(* C8: when the tree walk of the fallback renderer throws, the call has    *)
(* returned the empty string, with one error-level log entry for that      *)
(* failure and no telemetry report for it (the only reports are those of   *)
(* a failed native attempt), and the fallback ran once, after which the    *)
(* call is over.                                                           *)
(***************************************************************************)
C8_FallbackFailure ==
  \A c \in Calls :
    LET r == call[c] IN
    (r.fallback = 1 /\ TreeWalkThrows(r.html.nodes) /\ r.pc # "rejected") =>
       /\ r.pc = "returned" /\ r.result = << >>
       /\ r.renderErrorLog = 1
       /\ r.sentry = r.nativeErrorLog
       /\ r.native <= 1

C8_Witness ==
  \E c \in Calls :
    /\ call[c].pc = "returned" /\ call[c].fallback = 1
    /\ TreeWalkThrows(call[c].html.nodes)
    /\ call[c].renderErrorLog = 1 /\ call[c].sentry = 0

(***************************************************************************)
(* C9: a call with the native backend enabled skips the file check only    *)
(* when a handle has been created, whatever failed before; and a call      *)
(* whose check found the artifact and whose load succeeded holds a handle  *)
(* and goes on to the native invocation.                                   *)
(***************************************************************************)
C9_FailureNotCached ==
  \A c \in Calls :
    LET r == call[c] IN
    (Started(r) /\ ~IsAbsentOrEmpty(r.html) /\ envSetting = "true") =>
       /\ r.stat = 0 => handlesCreated > 0
       /\ r.loadSaw = "ok" => (r.pc = "instReady" \/ r.native = 1)
       /\ (r.loadSaw = "ok" /\ ~Ended(r)) => r.converter > 0

\* a call started after a failed getInstance created the handle and is
\* inside the native invocation
C9_Witness ==
  \E c \in Calls :
    /\ call[c].afterFailure /\ call[c].loadSaw = "ok"
    /\ call[c].pc = "nativeWait" /\ call[c].converter = instance

(***************************************************************************)
(* C10: every call that has started eventually ends, given that the file   *)
(* check and the native invocation answer and the event loop resumes       *)
(* suspended calls.                                                        *)
(***************************************************************************)
C10_Terminates ==
  \A c \in Calls : Started(call[c]) ~> Ended(call[c])

C10_Witness ==
  \E c \in Calls :
    /\ call[c].pc = "returned" /\ call[c].nativeSaw = "err"
    /\ call[c].fallback = 1 /\ call[c].result # << >>

(***************************************************************************)
(* C11: processMultiLineLinks copies its input in order, except that a     *)
(* newline is preceded by a backslash exactly when the bracket depth at    *)
(* that position is positive; the depth is the number of "[" minus the     *)
(* number of "]" so far, where a "]" at depth 0 does not count.            *)
(***************************************************************************)
\* "[" minus "]" among the first i characters
Balance(s, i) ==
  Cardinality({ j \in 1..i : s[j] = "[" })
    - Cardinality({ j \in 1..i : s[j] = "]" })

\* a counter floored at 0 is the balance less its lowest value so far
DepthAt(s, i) ==
  LET lows == { Balance(s, j) : j \in 0..i }
      low  == CHOOSE m \in lows : \A k \in lows : m <= k
  IN  Balance(s, i) - low

Escaped(s, i) == s[i] = NL /\ DepthAt(s, i) > 0

\* where the i-th input character lands in the output
Landing(s, i) == i + Cardinality({ j \in 1..i : Escaped(s, j) })

C11_MultiLineLinks ==
  probe.kind = "links" =>
    LET s == probe.in
        t == probe.out
    IN  /\ Len(t) = Landing(s, Len(s))
        /\ \A i \in 1..Len(s) :
             /\ t[Landing(s, i)] = s[i]
             /\ Escaped(s, i) => t[Landing(s, i) - 1] = "\\"
        /\ s = BracketExample =>
             t = << "[", "a", "\\", NL, "b", "]", "(", "h", "t", "t", "p",
                    ":", "/", "/", "x", ")" >>
        /\ (\A i \in 1..Len(s) : s[i] \notin { "[", "]" }) => t = s

\* a newline after an unmatched "]" and a "[" is escaped
C11_Witness ==
  /\ probe.kind = "links"
  /\ probe.in = << "]", "[", NL >>
  /\ probe.out = << "]", "[", "\\", NL >>

(***************************************************************************)
(* C12: removeSkipToContentLinks deletes each `[Skip to Content](#...)`,   *)
(* in either letter case, from its "[" to the first ")" after the "#",     *)
(* and nothing else: a link whose target does not begin with "#" stays.    *)
(***************************************************************************)
IsHead(tok) == tok \in { HeadUpper, HeadLower }

\* index of the first ")" token at or after j, 0 when there is none
RECURSIVE CloseToken(_, _)
CloseToken(ts, j) ==
  IF j > Len(ts) THEN 0
  ELSE IF ts[j] = << ")" >> THEN j ELSE CloseToken(ts, j + 1)

\* the tokens that remain, from position i on
RECURSIVE Kept(_, _)
Kept(ts, i) ==
  IF i > Len(ts) THEN << >>
  ELSE IF /\ IsHead(ts[i]) /\ i < Len(ts) /\ ts[i + 1] = << "#" >>
          /\ CloseToken(ts, i + 2) > 0
       THEN Kept(ts, CloseToken(ts, i + 2) + 1)
       ELSE << ts[i] >> \o Kept(ts, i + 1)

C12_SkipLinksRemoved ==
  probe.kind = "skip" => probe.out = Flatten(Kept(probe.toks, 1))

\* a lower-case link is removed, a link head with nothing after it is kept
C12_Witness ==
  /\ probe.kind = "skip"
  /\ probe.toks = << HeadLower, << "#" >>, << ")" >>, HeadUpper >>
  /\ probe.out = HeadUpper

(***************************************************************************)
(* C13: an image with a non-empty data-src X and no alternate attribute,   *)
(* with or without src, resolves on both sides to X without its            *)
(* `&wx_lazy=<digits>` and `&wx_co=<digits>` fragments.                    *)
(***************************************************************************)
Alternates == DOMAIN AlternateUrl

OnlyDataSrc(el) ==
  ~Falsy(el["data-src"]) /\ \A a \in Alternates : el[a] = Absent

\* u without every lazy-load fragment, from position i on
RECURSIVE Fragmentless(_, _)
Fragmentless(u, i) ==
  IF i > Len(u) THEN << >>
  ELSE IF \E head \in { WxLazy, WxCo } :
            /\ OccursAt(u, head, i)
            /\ DigitsEnd(u, i + Len(head)) > i + Len(head)
       THEN LET head == CHOOSE h \in { WxLazy, WxCo } : OccursAt(u, h, i)
            IN  Fragmentless(u, DigitsEnd(u, i + Len(head)))
       ELSE << u[i] >> \o Fragmentless(u, i + 1)

C13_DataSrcResolved ==
  /\ (probe.kind = "go" /\ OnlyDataSrc(probe.el)) =>
       probe.out["src"] = Fragmentless(probe.el["data-src"], 1)
  /\ (probe.kind = "js" /\ OnlyDataSrc(probe.el)) =>
       probe.url = Fragmentless(probe.el["data-src"], 1)

(***************************************************************************)
(* C14: an image whose src is an SVG placeholder, without data-src and     *)
(* without data-backsrc, data-fail-src or data-failsrc, and with an http   *)
(* data-original Y resolves to Y on both sides, with or without the        *)
(* site's class.                                                           *)
(***************************************************************************)
PlaceholderWithOriginal(el) ==
  /\ IsSvgPlaceholder(el["src"])
  /\ el["data-src"] = Absent
  /\ \A a \in { "data-backsrc", "data-fail-src", "data-failsrc" } :
       el[a] = Absent
  /\ el["data-original"] # Absent
  /\ StartsWith(el["data-original"], Http)

C14_PlaceholderResolved ==
  /\ (probe.kind = "go" /\ PlaceholderWithOriginal(probe.el)) =>
       probe.out["src"] = probe.el["data-original"]
  /\ (probe.kind = "js" /\ PlaceholderWithOriginal(probe.el)) =>
       probe.url = probe.el["data-original"]

(***************************************************************************)
(* C15: processWechatLazyImages applied to its own output gives that       *)
(* output again.                                                           *)
(***************************************************************************)
C15_NormalizerIdempotent ==
  probe.kind = "goTwice" => probe.again = probe.out

(***************************************************************************)
(* C16: for every image the URL the native normalizer leaves in src is the *)
(* URL the fallback renderer's image rule prints.                          *)
(***************************************************************************)
C16_BackendsAgree ==
  /\ probe.kind = "go" =>
       (IF probe.out["src"] = Absent THEN << >> ELSE probe.out["src"])
         = JsResolved(probe.el)
  /\ probe.kind = "js" => probe.url = GoResolved(probe.el)

(***************************************************************************)
(* C17: processWechatLazyImages changes no attribute of an image other     *)
(* than src.                                                               *)
(***************************************************************************)
C17_OnlySrcRewritten ==
  probe.kind = "go" =>
    \A a \in AttrNames \ { "src" } : probe.out[a] = probe.el[a]

(***************************************************************************)
(* C18: while a call is between the rendering of the fallback and its two  *)
(* post-processing transforms, no other call takes a step.                 *)
(***************************************************************************)
C18_FallbackUninterrupted ==
  [][\A c, d \in Calls :
       (c # d /\ call[c].pc = "fbAwait") => call'[d] = call[d]]_vars

(***************************************************************************)
(* C19: once a native handle has been stored, the stored handle never      *)
(* changes.                                                                *)
(***************************************************************************)
C19_HandleNeverReplaced ==
  [][instance # 0 => instance' = instance]_vars

(***************************************************************************)
(* C20: whenever a call returns after its backend produced raw Markdown,   *)
(* natively or by the fallback, the result is the raw Markdown with the    *)
(* multi-line links escaped first and the skip links removed second.       *)
(***************************************************************************)
\* escaping, then removal, of each raw Markdown a backend can produce
EscapedThenCleaned ==
  [md \in RawOutputs |->
     removeSkipToContentLinks(processMultiLineLinks(md))]

C20_PostProcessedOnce ==
  [][\A c \in Calls :
       (call[c].pc \in { "nativeResolved", "fbAwait" }
          /\ call'[c].pc = "returned") =>
         call'[c].result = EscapedThenCleaned[call[c].markdownContent]]_vars

\* the fallback returned the page with the link text escaped and the skip
\* link gone; the newline after the skip link is escaped, as its target
\* holds a "["
C20_Witness ==
  \E c \in Calls :
    /\ call[c].pc = "returned"
    /\ call[c].fallback = 1
    /\ call[c].result =
         << "[", "a", "\\", NL, "b", "]", "(", "u", ")", NL, NL, NL,
            "\\", NL >>

(***************************************************************************)
(* C21: what removeSkipToContentLinks returns holds no skip link in either *)
(* letter case, and removeSkipToContentLinks leaves it as it is.           *)
(***************************************************************************)
C21_NoSkipLinkLeft ==
  probe.kind = "skipTwice" =>
    /\ \A i \in 1..Len(probe.out) : SkipMatchEnd(probe.out, i) = 0
    /\ probe.again = probe.out

====
